---- MODULE Spec2Model ----
(***************************************************************************)
(* A model of Queue<T> (src/queue.hpp): a FIFO queue kept in a manually    *)
(* managed contiguous buffer.  Raw storage (::operator new / delete) is    *)
(* modelled apart from object lifetime (placement new / explicit           *)
(* destructor call), so that double destruction, leaks and accesses        *)
(* through pointers that do not designate storage are visible.             *)
(***************************************************************************)
EXTENDS Integers, Sequences, FiniteSets, TLC

\* ------------------------------------------------------------------ bounds
\* Push is offered only while m_Size < MaxSize (the code has no such limit).
MaxSize == 3
\* Number of storage regions the allocator can hand out at the same time.
HeapSize == 3
\* Number of Push / Pop calls counted in the counting specification.
MaxCalls == 5

\* ------------------------------------------------------- program constants
INITIAL_CAPACITY == 1

\* --------------------------------------------------------------- universes
\* The queue objects of the program (two automatic variables of type Queue<T>).
Queues == {"a", "b"}
\* Element values (T is a value type; two values tell order apart).
Values == {"x", "y"}
\* A slot of raw storage that holds no object.
Raw == "raw"
\* A live object that has been the source of std::move: valid, unspecified value.
MovedFrom == "moved"
\* What a read through a pointer that designates no storage yields.
Garbage == "garbage"
Addrs == 1..HeapSize
\* A region of the free store that is not allocated.
Unallocated == << >>

\* A T* is either what ::operator new returned, or an integer converted to a
\* pointer (lines 50 and 98 initialise m_Container from m_Capacity).
Ptr(a) == [fromNew |-> TRUE, at |-> a]
IntPtr(n) == [fromNew |-> FALSE, at |-> n]
NullPtr == IntPtr(0)

VARIABLES
    heap,         \* Addrs -> region: Unallocated, or the sequence of its slots
    faults,       \* the lifetime / storage errors committed so far
    life,         \* Queues -> "none" (not yet constructed) | "live" | "dead"
    m_Container,  \* Queues -> pointer
    m_Size,       \* Queues -> Nat
    m_Capacity,   \* Queues -> Nat
    fifo,         \* Queues -> the abstract FIFO sequence the queue should hold
    made,         \* Queues -> how the object got its present buffer
    nPush,        \* Push calls counted (counting specification)
    nPop,         \* Pop calls counted (counting specification)
    nPopEmpty,    \* Pop calls made on an empty queue (counting specification)
    thrown,       \* the exception the last call left by ("none": it returned)
    nReloc,       \* elements relocated by Reallocate so far (counting)
    peakSize,     \* the largest m_Size the counted queue has had (counting)
    cleared,      \* Clear has been called on the counted queue (counting)
    selfAssigned  \* the counted queue has been assigned to itself (counting)

progVars == <<heap, faults, life, m_Container, m_Size, m_Capacity>>
ghostVars == <<fifo, made>>
tallyVars == <<nReloc, peakSize, cleared, selfAssigned>>
countVars == <<nPush, nPop, nPopEmpty, tallyVars>>
vars == <<heap, faults, life, m_Container, m_Size, m_Capacity, fifo, made,
          nPush, nPop, nPopEmpty, thrown, tallyVars>>

\* ------------------------------------------------------------------ memory
\* The state the member functions work on, as one record; exc is the exception
\* in flight ("none" while the function runs normally), ret the last pointer
\* returned by ::operator new.  Three fields describe the call's environment:
\* nomem (the free store refuses the next request), budget (how many T copy
\* constructions succeed before T's copy constructor throws; -1: it never
\* throws) and reloc (elements Reallocate has moved during the call).
World ==
    [heap |-> heap, faults |-> faults, cont |-> m_Container, size |-> m_Size,
     cap |-> m_Capacity, exc |-> "none", ret |-> NullPtr,
     nomem |-> FALSE, budget |-> -1, reloc |-> 0]

\* The same state, for a call during which the free store has nothing to give.
WorldNoMemory == [World EXCEPT !.nomem = TRUE]

\* The same state, for a call during which T's k + 1st copy construction throws.
WorldCopyThrows(k) == [World EXCEPT !.budget = k]

Fault(W, f) == [W EXCEPT !.faults = @ \cup {f}]

\* p designates allocated storage of the free store h.
Allocated(h, p) == p.fromNew /\ p.at \in Addrs /\ h[p.at] # Unallocated

\* &p[i] lies inside allocated storage (i counts from 0, as in the source).
InStorage(h, p, i) == Allocated(h, p) /\ i >= 0 /\ i < Len(h[p.at])

\* ::operator new(n * sizeof(T)): the lowest free region, n raw slots;
\* std::bad_alloc when the free store is exhausted.  (Every request made by
\* the queue has n >= 1: capacities start at INITIAL_CAPACITY and only double
\* or are copied.)
OperatorNew(W, n) ==
    LET free == {a \in Addrs : W.heap[a] = Unallocated}
    IN  IF W.nomem \/ free = {} \/ n < 1
        THEN [W EXCEPT !.exc = "bad_alloc", !.ret = NullPtr]
        ELSE LET a == CHOOSE x \in free : \A y \in free : x <= y
             IN  [W EXCEPT !.heap[a] = [i \in 1..n |-> Raw], !.ret = Ptr(a)]

\* ::operator delete(p, n * sizeof(T)).  Objects still alive in the region are
\* never destroyed afterwards; a size that is not the allocated one, or a
\* pointer that operator new did not return, is an error of the caller.
OperatorDelete(W, p, n) ==
    IF ~Allocated(W.heap, p)
    THEN Fault(W, "bad_free")
    ELSE LET r == W.heap[p.at]
             W1 == IF \E i \in 1..Len(r) : r[i] # Raw
                   THEN Fault(W, "object_leaked") ELSE W
             W2 == IF n # Len(r) THEN Fault(W1, "delete_size_mismatch") ELSE W1
         IN  [W2 EXCEPT !.heap[p.at] = Unallocated]

\* The value of p[i] as an rvalue.
ReadAt(h, p, i) ==
    IF InStorage(h, p, i) THEN h[p.at][i + 1] ELSE Garbage

ReadFault(W, p, i) ==
    IF ~InStorage(W.heap, p, i) THEN Fault(W, "wild_read")
    ELSE IF W.heap[p.at][i + 1] = Raw THEN Fault(W, "read_unconstructed")
    ELSE W

\* new (&p[i]) T(v)
ConstructAt(W, p, i, v) ==
    IF ~InStorage(W.heap, p, i)
    THEN Fault(W, "wild_write")
    ELSE LET W1 == IF W.heap[p.at][i + 1] # Raw
                   THEN Fault(W, "construct_over_live") ELSE W
         IN  [W1 EXCEPT !.heap[p.at][i + 1] = v]

\* p[i].~T()
DestroyAt(W, p, i) ==
    IF ~InStorage(W.heap, p, i)
    THEN Fault(W, "wild_destroy")
    ELSE IF W.heap[p.at][i + 1] = Raw
    THEN Fault(W, "destroy_unconstructed")
    ELSE [W EXCEPT !.heap[p.at][i + 1] = Raw]

\* new (&dst[i]) T(src[j]): the source object is left as it is.  When T's copy
\* constructor throws, no object is constructed in the slot.
CopyConstruct(W, dst, i, src, j) ==
    IF W.budget = 0
    THEN [W EXCEPT !.exc = "copy_threw"]
    ELSE LET W1 == IF W.budget > 0 THEN [W EXCEPT !.budget = @ - 1] ELSE W
         IN  ConstructAt(ReadFault(W1, src, j), dst, i, ReadAt(W.heap, src, j))

\* new (&dst[i]) T(std::move(src[j])): the source object stays alive, moved-from.
MoveConstruct(W, dst, i, src, j) ==
    LET v == ReadAt(W.heap, src, j)
        W1 == ConstructAt(ReadFault(W, src, j), dst, i, v)
    IN  IF InStorage(W1.heap, src, j) /\ W1.heap[src.at][j + 1] # Raw
        THEN [W1 EXCEPT !.heap[src.at][j + 1] = MovedFrom]
        ELSE W1

\* -------------------------------------------------------- member functions
\* Each member function is an operator from the state before the call to the
\* state after it; loops are unrolled by recursion on the loop index.

\* A default constructor that allocates the first slot and records no
\* capacity for it.
DefaultConstructNoCapacity(W, q) ==
    LET W1 == OperatorNew(W, INITIAL_CAPACITY)
    IN  IF W1.exc # "none" THEN W1
        ELSE [W1 EXCEPT !.cont[q] = W1.ret, !.size[q] = 0, !.cap[q] = 0]

\* Queue(): lines 22-26.
DefaultConstruct(W, q) ==
    LET W1 == OperatorNew(W, INITIAL_CAPACITY)
    IN  IF W1.exc # "none" THEN W1
        ELSE [W1 EXCEPT !.cont[q] = W1.ret, !.size[q] = 0,
                        !.cap[q] = INITIAL_CAPACITY]

\* for (i = from; i < m_Size; ++i) new (&m_Container[i]) T(other.m_Container[i]);
\* lines 39-40 and 82-83.
RECURSIVE CopyLoop(_, _, _, _)
CopyLoop(W, q, o, i) ==
    IF i >= W.size[q] \/ W.exc # "none" THEN W
    ELSE CopyLoop(CopyConstruct(W, W.cont[q], i, W.cont[o], i), q, o, i + 1)

\* A copy constructor that copies the pointer instead of the elements.
CopyConstructShallow(W, q, o) ==
    [W EXCEPT !.cont[q] = W.cont[o], !.size[q] = W.size[o],
              !.cap[q] = W.cap[o]]

\* Queue(const Queue& other): lines 34-41.
CopyConstructQueue(W, q, o) ==
    LET W1 == OperatorNew(W, W.cap[o])
    IN  IF W1.exc # "none" THEN W1
        ELSE CopyLoop([W1 EXCEPT !.cont[q] = W1.ret, !.size[q] = W.size[o],
                                 !.cap[q] = W.cap[o]], q, o, 0)

\* The statements shared by the move constructor (lines 54-56) and move
\* assignment (lines 102-104): the pointer operator new returns is stored in
\* other.m_Capacity, which the last statement overwrites; other.m_Container is
\* never assigned.
ResetMovedFrom(W, o) ==
    LET W1 == OperatorNew(W, INITIAL_CAPACITY)
    IN  IF W1.exc # "none" THEN W1
        ELSE LET W2 == [W1 EXCEPT !.cap[o] = W1.ret]
                 W3 == [W2 EXCEPT !.size[o] = 0]
             IN  [W3 EXCEPT !.cap[o] = INITIAL_CAPACITY]

\* Queue(Queue&& other): lines 49-57.  m_Container is initialised from
\* other.m_Capacity, an integer, not from other.m_Container.  The statements
\* are modelled as written, with the integer/pointer conversions a permissive
\* build applies (a strict build rejects the function once it is used).
MoveConstructQueue(W, q, o) ==
    ResetMovedFrom([W EXCEPT !.cont[q] = IntPtr(W.cap[o]),
                             !.size[q] = W.size[o],
                             !.cap[q] = W.cap[o]], o)

\* A loop of Clear that stops one short: i < m_Size - 1.
RECURSIVE ClearLoopToLast(_, _, _)
ClearLoopToLast(W, q, i) ==
    IF i + 1 >= W.size[q] THEN W
    ELSE ClearLoopToLast(DestroyAt(W, W.cont[q], i), q, i + 1)

\* A loop of Clear that tests after the body: do { ... } while (++i < m_Size).
RECURSIVE ClearLoopDoWhile(_, _, _)
ClearLoopDoWhile(W, q, i) ==
    LET W1 == DestroyAt(W, W.cont[q], i)
    IN  IF i + 1 >= W.size[q] THEN W1 ELSE ClearLoopDoWhile(W1, q, i + 1)

\* for (i = from; i < m_Size; ++i) m_Container[i].~T();  lines 175-176.
RECURSIVE ClearLoop(_, _, _)
ClearLoop(W, q, i) ==
    IF i >= W.size[q] THEN W
    ELSE ClearLoop(DestroyAt(W, W.cont[q], i), q, i + 1)

\* A Clear that also gives the capacity back.
ClearShrinks(W, q) ==
    [ClearLoop(W, q, 0) EXCEPT !.size[q] = 0, !.cap[q] = INITIAL_CAPACITY]

\* Clear(): lines 173-179.
Clear(W, q) == [ClearLoop(W, q, 0) EXCEPT !.size[q] = 0]

\* ~Queue(): lines 59-63.
Destruct(W, q) ==
    LET W1 == Clear(W, q)
    IN  OperatorDelete(W1, W1.cont[q], W1.cap[q])

\* A copy assignment without the test of line 73.
CopyAssignUnguarded(W, q, o) ==
    LET W1 == Clear(W, q)
        W2 == OperatorDelete(W1, W1.cont[q], W1.cap[q])
        W3 == OperatorNew(W2, W2.cap[o])
    IN  IF W3.exc # "none" THEN W3
        ELSE CopyLoop([W3 EXCEPT !.cont[q] = W3.ret,
                                 !.size[q] = W3.size[o],
                                 !.cap[q] = W3.cap[o]], q, o, 0)

\* operator=(const Queue& other): lines 71-86.
CopyAssign(W, q, o) ==
    IF q = o THEN W
    ELSE LET W1 == Clear(W, q)
             W2 == OperatorDelete(W1, W1.cont[q], W1.cap[q])
             W3 == OperatorNew(W2, W2.cap[o])
         IN  IF W3.exc # "none" THEN W3
             ELSE CopyLoop([W3 EXCEPT !.cont[q] = W3.ret,
                                      !.size[q] = W3.size[o],
                                      !.cap[q] = W3.cap[o]], q, o, 0)

\* operator=(Queue&& other): lines 94-107.  No Clear() and no operator delete
\* precede the assignments; m_Container is assigned other.m_Capacity.
MoveAssign(W, q, o) ==
    IF q = o THEN W
    ELSE ResetMovedFrom([W EXCEPT !.cont[q] = IntPtr(W.cap[o]),
                                  !.size[q] = W.size[o],
                                  !.cap[q] = W.cap[o]], o)

\* A loop of Reallocate that moves the elements and never destroys the
\* objects it moved from: line 205 is gone.
RECURSIVE RelocateLoopNoDestroy(_, _, _, _)
RelocateLoopNoDestroy(W, q, newContainer, i) ==
    IF i >= W.size[q] THEN W
    ELSE LET W1 == MoveConstruct(W, newContainer, i, W.cont[q], i)
         IN  RelocateLoopNoDestroy([W1 EXCEPT !.reloc = @ + 1],
                                   q, newContainer, i + 1)

\* The loop of Reallocate, lines 202-206: move each element into the new
\* region and destroy the one it was moved from.
RECURSIVE RelocateLoop(_, _, _, _)
RelocateLoop(W, q, newContainer, i) ==
    IF i >= W.size[q] THEN W
    ELSE LET W1 == MoveConstruct(W, newContainer, i, W.cont[q], i)
             W2 == [DestroyAt(W1, W.cont[q], i) EXCEPT !.reloc = @ + 1]
         IN  RelocateLoop(W2, q, newContainer, i + 1)

\* A Reallocate that takes any newCapacity: the test of lines 196-197 is gone.
ReallocateUnchecked(W, q, newCapacity) ==
    LET W1 == OperatorNew(W, newCapacity)
    IN  IF W1.exc # "none" THEN W1
        ELSE LET newContainer == W1.ret
                 W2 == RelocateLoop(W1, q, newContainer, 0)
                 W3 == OperatorDelete(W2, W2.cont[q], W2.cap[q])
             IN  [W3 EXCEPT !.cont[q] = newContainer,
                            !.cap[q] = newCapacity]

\* Reallocate(newCapacity): lines 194-212.
Reallocate(W, q, newCapacity) ==
    IF newCapacity <= W.cap[q]
    THEN [W EXCEPT !.exc = "invalid_argument"]
    ELSE LET W1 == OperatorNew(W, newCapacity)
         IN  IF W1.exc # "none" THEN W1
             ELSE LET newContainer == W1.ret
                      W2 == RelocateLoop(W1, q, newContainer, 0)
                      W3 == OperatorDelete(W2, W2.cont[q], W2.cap[q])
                  IN  [W3 EXCEPT !.cont[q] = newContainer,
                                 !.cap[q] = newCapacity]

\* A Push that grows the buffer by one slot instead of doubling it.
PushGrowsByOne(W, q, v) ==
    LET W1 == IF W.size[q] >= W.cap[q]
              THEN Reallocate(W, q, W.cap[q] + 1) ELSE W
    IN  IF W1.exc # "none" THEN W1
        ELSE [ConstructAt(W1, W1.cont[q], W1.size[q], v)
                 EXCEPT !.size[q] = @ + 1]

\* Push(const ValueType&) and Push(ValueType&&): lines 126-133 and 141-148.
\* The two differ only in what they leave in the caller's argument.
Push(W, q, v) ==
    LET W1 == IF W.size[q] >= W.cap[q]
              THEN Reallocate(W, q, W.cap[q] * 2) ELSE W
    IN  IF W1.exc # "none" THEN W1
        ELSE [ConstructAt(W1, W1.cont[q], W1.size[q], v)
                 EXCEPT !.size[q] = @ + 1]

\* A Pop whose loop is missing: nothing moves forward and the element that
\* leaves is the one at the back.
ShiftLoopSkipped(W, q, i) == W

\* A loop of Pop that runs one slot too far: i <= m_Size.
RECURSIVE ShiftLoopOverrun(_, _, _)
ShiftLoopOverrun(W, q, i) ==
    IF i > W.size[q] THEN W
    ELSE LET W1 == DestroyAt(W, W.cont[q], i)
         IN  ShiftLoopOverrun(
                 MoveConstruct(W1, W.cont[q], i, W.cont[q], i + 1), q, i + 1)

\* The loop of Pop, lines 160-164.
RECURSIVE ShiftLoop(_, _, _)
ShiftLoop(W, q, i) ==
    IF i >= W.size[q] THEN W
    ELSE LET W1 == DestroyAt(W, W.cont[q], i)
         IN  ShiftLoop(MoveConstruct(W1, W.cont[q], i, W.cont[q], i + 1),
                       q, i + 1)

\* Pop without the test of line 157.
PopUnguarded(W, q) ==
    LET W1 == [W EXCEPT !.size[q] = @ - 1]
        W2 == ShiftLoop(W1, q, 0)
    IN  DestroyAt(W2, W2.cont[q], W2.size[q])

\* Pop(): lines 155-166.
Pop(W, q) ==
    IF W.size[q] = 0 THEN W
    ELSE LET W1 == [W EXCEPT !.size[q] = @ - 1]
             W2 == ShiftLoop(W1, q, 0)
         IN  DestroyAt(W2, W2.cont[q], W2.size[q])

\* Empty(), Size(), Capacity(): lines 110-112.
Empty(q) == m_Size[q] = 0
Size(q) == m_Size[q]
Capacity(q) == m_Capacity[q]

\* Front() and Back(): lines 115-118.
Front(q) == ReadAt(heap, m_Container[q], 0)
Back(q) == ReadAt(heap, m_Container[q], m_Size[q] - 1)

\* The elements in slots [0, m_Size), front first, as a caller reads them.
Contents(q) == [i \in 1..m_Size[q] |-> ReadAt(heap, m_Container[q], i - 1)]

\* ----------------------------------------------------------------- actions
\* Errors after which the program has no defined continuation: an access or a
\* release through a pointer that designates no storage stops the process.
Fatal ==
    {"wild_read", "wild_write", "wild_destroy", "bad_free",
     "destroy_unconstructed", "read_unconstructed"}

Running == faults \cap Fatal = {}

Init ==
    /\ heap = [a \in Addrs |-> Unallocated]
    /\ faults = {}
    /\ life = [q \in Queues |-> "none"]
    /\ m_Container = [q \in Queues |-> NullPtr]
    /\ m_Size = [q \in Queues |-> 0]
    /\ m_Capacity = [q \in Queues |-> 0]
    /\ fifo = [q \in Queues |-> << >>]
    /\ made = [q \in Queues |-> "none"]
    /\ nPush = 0
    /\ nPop = 0
    /\ nPopEmpty = 0
    /\ thrown = "none"
    /\ nReloc = 0
    /\ peakSize = 0
    /\ cleared = FALSE
    /\ selfAssigned = FALSE

\* The call returned normally and left the state W.  A call that would throw
\* (the bounded free store is exhausted) is not offered by these actions.
Returns(W) ==
    /\ W.exc = "none"
    /\ heap' = W.heap
    /\ faults' = W.faults
    /\ m_Container' = W.cont
    /\ m_Size' = W.size
    /\ m_Capacity' = W.cap
    /\ thrown' = "none"

\* The call left by the exception W.exc, the state being W at that point.
Throws(W, e) ==
    /\ W.exc = e
    /\ heap' = W.heap
    /\ faults' = W.faults
    /\ m_Container' = W.cont
    /\ m_Size' = W.size
    /\ m_Capacity' = W.cap
    /\ thrown' = e

\* Queue<T> q;
DefaultCtor(q) ==
    /\ Running /\ life[q] = "none"
    /\ Returns(DefaultConstruct(World, q))
    /\ life' = [life EXCEPT ![q] = "live"]
    /\ fifo' = [fifo EXCEPT ![q] = << >>]
    /\ made' = [made EXCEPT ![q] = "default"]

\* Queue<T> q(o);
CopyCtor(q, o) ==
    /\ Running /\ life[q] = "none" /\ life[o] = "live"
    /\ Returns(CopyConstructQueue(World, q, o))
    /\ life' = [life EXCEPT ![q] = "live"]
    /\ fifo' = [fifo EXCEPT ![q] = fifo[o]]
    /\ made' = [made EXCEPT ![q] = "copy"]

\* Queue<T> q(std::move(o));
MoveCtor(q, o) ==
    /\ Running /\ life[q] = "none" /\ life[o] = "live"
    /\ Returns(MoveConstructQueue(World, q, o))
    /\ life' = [life EXCEPT ![q] = "live"]
    /\ fifo' = [fifo EXCEPT ![q] = fifo[o], ![o] = << >>]
    /\ made' = [made EXCEPT ![q] = "move", ![o] = "moved_from"]

\* q goes out of scope; its members no longer exist afterwards.
Dtor(q) ==
    /\ Running /\ life[q] = "live"
    /\ LET W == Destruct(World, q)
       IN  Returns([W EXCEPT !.cont[q] = NullPtr, !.size[q] = 0, !.cap[q] = 0])
    /\ life' = [life EXCEPT ![q] = "dead"]
    /\ fifo' = [fifo EXCEPT ![q] = << >>]
    /\ made' = [made EXCEPT ![q] = "none"]

\* q = o;  (o may be q itself)
CopyAssignCall(q, o) ==
    /\ Running /\ life[q] = "live" /\ life[o] = "live"
    /\ Returns(CopyAssign(World, q, o))
    /\ fifo' = [fifo EXCEPT ![q] = fifo[o]]
    /\ made' = IF q = o THEN made ELSE [made EXCEPT ![q] = "copy_assign"]
    /\ UNCHANGED life

\* q = std::move(o);  (o may be q itself)
MoveAssignCall(q, o) ==
    /\ Running /\ life[q] = "live" /\ life[o] = "live"
    /\ Returns(MoveAssign(World, q, o))
    /\ fifo' = IF q = o THEN fifo
               ELSE [fifo EXCEPT ![q] = fifo[o], ![o] = << >>]
    /\ made' = IF q = o THEN made
               ELSE [made EXCEPT ![q] = "move_assign", ![o] = "moved_from"]
    /\ UNCHANGED life

\* q.Push(v) with v an lvalue.  The argument is an object outside the buffer:
\* no reference into the buffer is held across a mutating call.
PushCopy(q, v) ==
    /\ Running /\ life[q] = "live" /\ m_Size[q] < MaxSize
    /\ Returns(Push(World, q, v))
    /\ fifo' = [fifo EXCEPT ![q] = Append(@, v)]
    /\ UNCHANGED <<life, made>>

\* q.Push(std::move(v)).
PushMove(q, v) ==
    /\ Running /\ life[q] = "live" /\ m_Size[q] < MaxSize
    /\ Returns(Push(World, q, v))
    /\ fifo' = [fifo EXCEPT ![q] = Append(@, v)]
    /\ UNCHANGED <<life, made>>

\* q.Pop();
PopCall(q) ==
    /\ Running /\ life[q] = "live"
    /\ Returns(Pop(World, q))
    /\ fifo' = [fifo EXCEPT ![q] = IF @ = << >> THEN @ ELSE Tail(@)]
    /\ UNCHANGED <<life, made>>

\* q.Clear();
ClearCall(q) ==
    /\ Running /\ life[q] = "live"
    /\ Returns(Clear(World, q))
    /\ fifo' = [fifo EXCEPT ![q] = << >>]
    /\ UNCHANGED <<life, made>>

\* Every public operation, on every queue object.
Next ==
    \/ \E q \in Queues : DefaultCtor(q) /\ UNCHANGED countVars
    \/ \E q, o \in Queues : CopyCtor(q, o) /\ UNCHANGED countVars
    \/ \E q, o \in Queues : MoveCtor(q, o) /\ UNCHANGED countVars
    \/ \E q \in Queues : Dtor(q) /\ UNCHANGED countVars
    \/ \E q, o \in Queues : CopyAssignCall(q, o) /\ UNCHANGED countVars
    \/ \E q, o \in Queues : MoveAssignCall(q, o) /\ UNCHANGED countVars
    \/ \E q \in Queues, v \in Values : PushCopy(q, v) /\ UNCHANGED countVars
    \/ \E q \in Queues, v \in Values : PushMove(q, v) /\ UNCHANGED countVars
    \/ \E q \in Queues : PopCall(q) /\ UNCHANGED countVars
    \/ \E q \in Queues : ClearCall(q) /\ UNCHANGED countVars

Spec == Init /\ [][Next]_vars

\* The operations that never move a queue: construction by default or by
\* copy, copy assignment, Push, Pop, Clear and destruction.
NextCopy ==
    \/ \E q \in Queues : DefaultCtor(q) /\ UNCHANGED countVars
    \/ \E q, o \in Queues : CopyCtor(q, o) /\ UNCHANGED countVars
    \/ \E q \in Queues : Dtor(q) /\ UNCHANGED countVars
    \/ \E q, o \in Queues : CopyAssignCall(q, o) /\ UNCHANGED countVars
    \/ \E q \in Queues, v \in Values : PushCopy(q, v) /\ UNCHANGED countVars
    \/ \E q \in Queues, v \in Values : PushMove(q, v) /\ UNCHANGED countVars
    \/ \E q \in Queues : PopCall(q) /\ UNCHANGED countVars
    \/ \E q \in Queues : ClearCall(q) /\ UNCHANGED countVars

SpecCopy == Init /\ [][NextCopy]_vars

\* One default-constructed queue driven by Push and Pop alone, every call
\* counted.
Counted == CHOOSE q \in Queues : TRUE

NextPushPop ==
    \/ /\ DefaultCtor(Counted)
       /\ UNCHANGED countVars
    \/ \E v \in Values :
          /\ PushCopy(Counted, v)
          /\ nPush < MaxCalls
          /\ nPush' = nPush + 1
          /\ UNCHANGED <<nPop, nPopEmpty, tallyVars>>
    \/ \E v \in Values :
          /\ PushMove(Counted, v)
          /\ nPush < MaxCalls
          /\ nPush' = nPush + 1
          /\ UNCHANGED <<nPop, nPopEmpty, tallyVars>>
    \/ /\ PopCall(Counted)
       /\ nPop < MaxCalls
       /\ nPop' = nPop + 1
       /\ nPopEmpty' = IF Empty(Counted) THEN nPopEmpty + 1 ELSE nPopEmpty
       /\ UNCHANGED <<nPush, tallyVars>>

SpecPushPop == Init /\ [][NextPushPop]_vars

Max(m, n) == IF m >= n THEN m ELSE n

\* One queue that is constructed, pushed to, popped from and cleared, with
\* the tallies kept: calls made, elements moved by Reallocate, largest size.
NextPushPopClear ==
    \/ /\ DefaultCtor(Counted)
       /\ UNCHANGED countVars
    \/ \E v \in Values :
          /\ PushCopy(Counted, v)
          /\ nPush < MaxCalls
          /\ nPush' = nPush + 1
          /\ nReloc' = nReloc + Push(World, Counted, v).reloc
          /\ peakSize' = Max(peakSize, m_Size'[Counted])
          /\ UNCHANGED <<nPop, nPopEmpty, cleared, selfAssigned>>
    \/ \E v \in Values :
          /\ PushMove(Counted, v)
          /\ nPush < MaxCalls
          /\ nPush' = nPush + 1
          /\ nReloc' = nReloc + Push(World, Counted, v).reloc
          /\ peakSize' = Max(peakSize, m_Size'[Counted])
          /\ UNCHANGED <<nPop, nPopEmpty, cleared, selfAssigned>>
    \/ /\ PopCall(Counted)
       /\ nPop < MaxCalls
       /\ nPop' = nPop + 1
       /\ nPopEmpty' = IF Empty(Counted) THEN nPopEmpty + 1 ELSE nPopEmpty
       /\ nReloc' = nReloc + Pop(World, Counted).reloc
       /\ UNCHANGED <<nPush, peakSize, cleared, selfAssigned>>
    \/ /\ ClearCall(Counted)
       /\ cleared' = TRUE
       /\ nReloc' = nReloc + Clear(World, Counted).reloc
       /\ UNCHANGED <<nPush, nPop, nPopEmpty, peakSize, selfAssigned>>

SpecPushPopClear == Init /\ [][NextPushPopClear]_vars

\* The same queue, which may also be assigned to itself: q = q and
\* q = std::move(q).
NextSelfAssign ==
    \/ NextPushPopClear
    \/ /\ CopyAssignCall(Counted, Counted)
       /\ selfAssigned' = TRUE
       /\ UNCHANGED <<nPush, nPop, nPopEmpty, nReloc, peakSize, cleared>>
    \/ /\ MoveAssignCall(Counted, Counted)
       /\ selfAssigned' = TRUE
       /\ UNCHANGED <<nPush, nPop, nPopEmpty, nReloc, peakSize, cleared>>

SpecSelfAssign == Init /\ [][NextSelfAssign]_vars

\* ------------------------------------------------------- calls that throw
\* q.Push(v) while the free store has nothing to give: std::bad_alloc leaves
\* Reallocate (line 199) and Push.
PushBadAlloc(q, v) ==
    /\ Running /\ life[q] = "live" /\ m_Size[q] < MaxSize
    /\ Throws(Push(WorldNoMemory, q, v), "bad_alloc")
    /\ UNCHANGED <<life, made, fifo>>

\* q = o while the free store has nothing to give: std::bad_alloc leaves
\* operator= at line 78.
CopyAssignBadAlloc(q, o) ==
    /\ Running /\ life[q] = "live" /\ life[o] = "live"
    /\ Throws(CopyAssign(WorldNoMemory, q, o), "bad_alloc")
    /\ UNCHANGED <<life, made, fifo>>

\* Queue<T> q(o) while the free store has nothing to give: the constructor is
\* left at line 35 and q never comes to exist.
CopyCtorBadAlloc(q, o) ==
    /\ Running /\ life[q] = "none" /\ life[o] = "live"
    /\ Throws(CopyConstructQueue(WorldNoMemory, q, o), "bad_alloc")
    /\ UNCHANGED <<life, made, fifo>>

\* Queue<T> q(o) where T's copy constructor throws at element k (line 40): the
\* constructor is left, q never comes to exist and ~Queue is not run for it.
CopyCtorElementThrows(q, o, k) ==
    /\ Running /\ life[q] = "none" /\ life[o] = "live"
    /\ k \in 0..(m_Size[o] - 1)
    /\ LET W == CopyConstructQueue(WorldCopyThrows(k), q, o)
       IN  Throws([W EXCEPT !.cont[q] = NullPtr, !.size[q] = 0, !.cap[q] = 0],
                  "copy_threw")
    /\ UNCHANGED <<life, made, fifo>>

\* q = o where T's copy constructor throws at element k (line 83).
CopyAssignElementThrows(q, o, k) ==
    /\ Running /\ life[q] = "live" /\ life[o] = "live"
    /\ k \in 0..(m_Size[o] - 1)
    /\ Throws(CopyAssign(WorldCopyThrows(k), q, o), "copy_threw")
    /\ fifo' = [fifo EXCEPT
                 ![q] = [i \in 1..k |-> ReadAt(heap, m_Container[o], i - 1)]]
    /\ made' = [made EXCEPT ![q] = "copy_assign"]
    /\ UNCHANGED life

\* ~Queue run on q while an exception propagates out of the scope that holds
\* the queues (stack unwinding).
Unwind(q) ==
    /\ Running /\ life[q] = "live"
    /\ thrown # "none"
    /\ LET W == Destruct(World, q)
       IN  /\ heap' = W.heap
           /\ faults' = W.faults
           /\ m_Container' = [W.cont EXCEPT ![q] = NullPtr]
           /\ m_Size' = [W.size EXCEPT ![q] = 0]
           /\ m_Capacity' = [W.cap EXCEPT ![q] = 0]
    /\ life' = [life EXCEPT ![q] = "dead"]
    /\ made' = [made EXCEPT ![q] = "none"]
    /\ fifo' = [fifo EXCEPT ![q] = << >>]
    /\ UNCHANGED thrown

\* The operations of NextCopy, each of which may also fail: by std::bad_alloc
\* from ::operator new, or by an exception of T's copy constructor.  Nobody
\* catches the exception: once one is thrown the queues are destroyed.
NextFail ==
    \/ thrown = "none" /\ NextCopy
    \/ \E q \in Queues, v \in Values :
          thrown = "none" /\ PushBadAlloc(q, v) /\ UNCHANGED countVars
    \/ \E q, o \in Queues :
          thrown = "none" /\ CopyAssignBadAlloc(q, o) /\ UNCHANGED countVars
    \/ \E q, o \in Queues :
          thrown = "none" /\ CopyCtorBadAlloc(q, o) /\ UNCHANGED countVars
    \/ \E q, o \in Queues :
          \E k \in 0..MaxSize :
              /\ thrown = "none"
              /\ CopyCtorElementThrows(q, o, k)
              /\ UNCHANGED countVars
    \/ \E q, o \in Queues :
          \E k \in 0..MaxSize :
              /\ thrown = "none"
              /\ CopyAssignElementThrows(q, o, k)
              /\ UNCHANGED countVars
    \/ \E q \in Queues : Unwind(q) /\ UNCHANGED countVars

SpecFail == Init /\ [][NextFail]_vars

\* ------------------------------------------------- Reallocate on its own
\* q.Reallocate(n), called as a member function would call it.  It returns
\* with a larger buffer or leaves by the exception it threw.
ReallocateCall(q, n) ==
    /\ Running /\ life[q] = "live"
    /\ LET W == Reallocate(World, q, n)
       IN  IF W.exc = "none" THEN Returns(W) ELSE Throws(W, W.exc)
    /\ UNCHANGED <<life, made, fifo>>

\* One queue: construction, Push, Pop and Reallocate with any argument up to
\* twice the largest size.
NextReallocate ==
    \/ DefaultCtor(Counted) /\ UNCHANGED countVars
    \/ \E v \in Values : PushCopy(Counted, v) /\ UNCHANGED countVars
    \/ PopCall(Counted) /\ UNCHANGED countVars
    \/ \E n \in 0..(2 * MaxSize) :
          ReallocateCall(Counted, n) /\ UNCHANGED countVars

SpecReallocate == Init /\ [][NextReallocate]_vars

\* ------------------------------------------------------------------ claims
\* What a caller can observe of queue q: size, capacity, elements front first.
Observed(q) == <<Size(q), Capacity(q), Contents(q)>>

Live(q) == life[q] = "live"

\* C1: for every sequence of Push and Pop calls on a default-constructed
\* queue, the elements read from the buffer are the abstract FIFO sequence
\* (pushes appended, pops removing the head): Front() is the oldest element
\* not yet popped and Back() the most recently pushed one, across growth.
C1_FifoOrder ==
    Live(Counted) =>
        /\ Contents(Counted) = fifo[Counted]
        /\ Size(Counted) = Len(fifo[Counted])
        /\ ~Empty(Counted) =>
              /\ Front(Counted) = Head(fifo[Counted])
              /\ Back(Counted) = fifo[Counted][Len(fifo[Counted])]

\* A queue that grew to capacity 4, was popped and pushed again, holding
\* different values at its two ends.
C1_Witness ==
    /\ Live(Counted) /\ Capacity(Counted) = 4 /\ Size(Counted) = 3
    /\ nPop >= 1 /\ nPopEmpty = 0 /\ nPush >= 4
    /\ Front(Counted) = "y" /\ Back(Counted) = "x"

\* C2 as stated: whenever the calls made so far are k Push calls and j Pop
\* calls with j <= k, Size() = k - j.
C2_SizeIsPushesMinusPops ==
    (Live(Counted) /\ nPop <= nPush) => Size(Counted) = nPush - nPop

\* C2 amended: Size() = k - j where j counts the Pop calls made on a non-empty
\* queue (a Pop on an empty queue changes nothing); Empty() iff Size() = 0.
C2_SizeCountsEffectivePops ==
    Live(Counted) =>
        /\ Size(Counted) = nPush - (nPop - nPopEmpty)
        /\ Empty(Counted) <=> (Size(Counted) = 0)
        /\ Size(Counted) = Len(Contents(Counted))

\* Pushes and pops interleaved, one of the pops on an empty queue.
C2_Witness ==
    /\ Live(Counted) /\ nPush = 4 /\ nPop = 3 /\ nPopEmpty = 1
    /\ Size(Counted) = 2

\* A step that copies o into q, by construction or by assignment (the ghost
\* variables are compared first: they are cheap and every copy sets them).
IsCopy(q, o) ==
    /\ q # o /\ fifo'[q] = fifo[o] /\ made'[q] \in {"copy", "copy_assign"}
    /\ CopyCtor(q, o) \/ CopyAssignCall(q, o)

\* A Push, Pop or Clear on q (the size is compared first, for the same reason).
IsMutation(q) ==
    \/ /\ m_Size'[q] = m_Size[q] + 1
       /\ \E v \in Values : PushCopy(q, v) \/ PushMove(q, v)
    \/ /\ m_Size'[q] = m_Size[q] - 1 \/ m_Size[q] = 0
       /\ PopCall(q)
    \/ /\ m_Size'[q] = 0
       /\ ClearCall(q)

\* C3: right after copy construction or copy assignment from another queue
\* the copy shows the source's size, capacity and elements, the source is as
\* it was and the two own different buffers; and a Push, Pop or Clear on one
\* queue leaves what the other queue shows, and its buffer, unchanged.
C3_CopyIsIndependent ==
    [][ /\ \A q, o \in Queues :
              \/ ~IsCopy(q, o)
              \/ /\ Observed(q)' = Observed(o)
                 /\ Observed(o)' = Observed(o)
                 /\ m_Container'[q] # m_Container'[o]
                 /\ faults' = faults
        /\ \A q, o \in Queues :
              \/ /\ Observed(o)' = Observed(o)
                 /\ m_Container'[o] = m_Container[o]
              \/ ~(q # o /\ Live(o) /\ IsMutation(q))
      ]_vars

\* A copy-assigned queue and its source, both grown, now holding different
\* elements behind different buffers.
C3_Witness ==
    \E q, o \in Queues :
        /\ q # o /\ Live(q) /\ Live(o)
        /\ made[q] = "copy_assign" /\ made[o] = "copy"
        /\ Size(q) = 3 /\ Size(o) = 1 /\ Capacity(q) = 4 /\ Capacity(o) = 4
        /\ Contents(q)[1] # Contents(o)[1]

\* A step that moves o into q, by construction or by assignment.
IsMove(q, o) == q # o /\ (MoveCtor(q, o) \/ MoveAssignCall(q, o))

\* Regions of the free store that are allocated, and objects alive in them.
AllocatedRegions == {a \in Addrs : heap[a] # Unallocated}
LiveObjects ==
    {<<a, i>> \in Addrs \X (1..(2 * MaxSize)) :
        i <= Len(heap[a]) /\ heap[a][i] # Raw}

\* C4: a move (construction or assignment, from another queue) hands the
\* source's buffer, size and capacity to the destination: afterwards the
\* destination's buffer is the region the source owned, and the destination
\* holds the source's former elements in order.
C4_MoveTransfersBuffer ==
    [][ \A q, o \in Queues :
            \/ ~(made'[q] \in {"move", "move_assign"} /\ IsMove(q, o))
            \/ /\ m_Container'[q] = m_Container[o]
               /\ Size(q)' = Size(o)
               /\ Capacity(q)' = Capacity(o)
               /\ Contents(q)' = Contents(o)
      ]_vars

\* C5: after a move the source is as a default-constructed queue: size 0,
\* capacity 1, owning a fresh region of exactly one raw slot that is not the
\* buffer handed to the destination.
C5_MovedFromIsFresh ==
    [][ \A q, o \in Queues :
            \/ ~(made'[q] \in {"move", "move_assign"} /\ IsMove(q, o))
            \/ /\ Size(o)' = 0
               /\ Capacity(o)' = INITIAL_CAPACITY
               /\ Allocated(heap', m_Container'[o])
               /\ heap'[m_Container'[o].at] = [i \in 1..INITIAL_CAPACITY |-> Raw]
               /\ m_Container'[o] # m_Container[o]
               /\ m_Container'[o] # m_Container'[q]
      ]_vars

\* C6: move assignment onto another queue releases what the target owned:
\* its live elements are destroyed and its buffer is released, so the step
\* ends with as many regions allocated as before (one released, one
\* acquired for the source) and with the target's former elements gone.
C6_MoveAssignReleasesTarget ==
    [][ \A q, o \in Queues :
            \/ ~(/\ q # o /\ made'[q] = "move_assign" /\ faults = {}
                 /\ MoveAssignCall(q, o))
            \/ /\ Cardinality(AllocatedRegions') = Cardinality(AllocatedRegions)
               /\ Cardinality(LiveObjects') = Cardinality(LiveObjects) - Size(q)
               /\ faults' = {}
      ]_vars

\* C7: over the lifetime of all queues no element is destroyed twice or
\* without having been constructed, no buffer is released twice or without
\* having been allocated, no element is left alive in released storage, and
\* once every queue is destroyed nothing remains allocated.
C7_DestroyedAndReleasedOnce ==
    /\ faults = {}
    /\ (\A q \in Queues : life[q] = "dead") => AllocatedRegions = {}

\* C8: every live queue owns an allocated buffer, and no two live queues
\* hold the same buffer.
C8_OneBufferPerQueue ==
    \A q \in Queues :
        Live(q) =>
            /\ Allocated(heap, m_Container[q])
            /\ \A o \in Queues :
                   (o # q /\ Live(o)) => m_Container[o] # m_Container[q]

\* C9: between operations every live queue has capacity >= size, a buffer of
\* capacity slots, its elements alive in slots [0, size) in FIFO order, and no
\* object in slots [size, capacity).
C9_SlotsInvariant ==
    \A q \in Queues :
        Live(q) =>
            /\ Capacity(q) >= Size(q)
            /\ Allocated(heap, m_Container[q])
            /\ Len(heap[m_Container[q].at]) = Capacity(q)
            /\ Contents(q) = fifo[q]
            /\ \A i \in Size(q)..(Capacity(q) - 1) :
                   ReadAt(heap, m_Container[q], i) = Raw

\* C10 as stated: no operation applied to a queue lowers its capacity.
C10_CapacityNeverDecreases ==
    [][ \A q \in Queues :
            (Live(q) /\ Live(q)') => Capacity(q)' >= Capacity(q) ]_vars

\* C10 amended: Push, Pop and Clear never lower the capacity (Push doubles it
\* exactly when the queue is full); copy assignment from another queue sets
\* it to the source's capacity, whatever the target's was.
C10_PushPopClearKeepCapacity ==
    [][ \A q \in Queues :
            /\ \/ Capacity(q)' = Capacity(q)
               \/ /\ Size(q) = Capacity(q)
                  /\ Capacity(q)' = 2 * Capacity(q)
                  /\ \E v \in Values : PushCopy(q, v) \/ PushMove(q, v)
               \/ ~(\/ \E v \in Values : PushCopy(q, v) \/ PushMove(q, v)
                    \/ PopCall(q)
                    \/ ClearCall(q))
            /\ \A o \in Queues :
                   \/ Capacity(q)' = Capacity(o)
                   \/ ~(q # o /\ made'[q] = "copy_assign"
                        /\ CopyAssignCall(q, o))
      ]_vars

\* A queue that grew to capacity 4 and was then emptied keeps its capacity,
\* beside a queue that copy assignment took from capacity 4 down to 1.
C10_Witness ==
    \E q, o \in Queues :
        /\ q # o /\ Live(q) /\ Live(o)
        /\ made[q] = "default" /\ Capacity(q) = 4 /\ Size(q) = 0
        /\ made[o] = "copy_assign" /\ Capacity(o) = 1

\* C11: when ::operator new throws during copy assignment or during the
\* growth step of Push, the call has no effect: the queue keeps its buffer,
\* size, capacity and elements, and no lifetime or storage error is committed.
C11_BadAllocHasNoEffect ==
    [][ \A q \in Queues :
            \/ thrown' # "bad_alloc"
            \/ ~(\/ \E v \in Values : PushBadAlloc(q, v)
                 \/ \E o \in Queues : CopyAssignBadAlloc(q, o))
            \/ /\ heap' = heap
               /\ m_Container' = m_Container
               /\ m_Size' = m_Size
               /\ m_Capacity' = m_Capacity
               /\ faults' = faults
      ]_vars

\* C12: Reallocate(newCapacity) with newCapacity <= capacity leaves by an
\* invalid-argument exception, and the queue's buffer, size, capacity and
\* elements are what they were before the call.
C12_ReallocateRejectsNonGrowth ==
    [][ \A q \in Queues : \A n \in 0..(2 * MaxSize) :
            (n <= m_Capacity[q] /\ ReallocateCall(q, n)) =>
                /\ thrown' = "invalid_argument"
                /\ heap' = heap
                /\ m_Container' = m_Container
                /\ m_Size' = m_Size
                /\ m_Capacity' = m_Capacity
                /\ faults' = faults
                /\ Contents(q)' = Contents(q)
      ]_vars

\* A queue of two elements in a buffer of four slots has just rejected a
\* Reallocate.
C12_Witness ==
    /\ thrown = "invalid_argument"
    /\ Size(Counted) = 2
    /\ Capacity(Counted) = 4

\* C13: Clear() destroys each of the size live elements exactly once (every
\* slot of the buffer is raw storage afterwards and no slot without an object
\* was destroyed), leaves Size() == 0, and leaves Capacity() and the owned
\* buffer as they were: nothing is released or allocated.
C13_ClearKeepsBuffer ==
    [][ \A q \in Queues :
            ClearCall(q) =>
                /\ Size(q)' = 0
                /\ Capacity(q)' = Capacity(q)
                /\ m_Container'[q] = m_Container[q]
                /\ AllocatedRegions' = AllocatedRegions
                /\ Len(heap'[m_Container[q].at]) = Len(heap[m_Container[q].at])
                /\ \A i \in 0..(Capacity(q) - 1) :
                       ReadAt(heap', m_Container[q], i) = Raw
                /\ faults' = faults
      ]_vars

\* Three pushes, no pop, and the queue is empty in its buffer of four slots:
\* Clear() has run on a queue of three elements.
C13_Witness ==
    /\ cleared
    /\ nPush = 3 /\ nPop = 0
    /\ Size(Counted) = 0
    /\ Capacity(Counted) = 4

\* C14: Pop() and Clear() on an empty queue return normally and change
\* nothing: the size stays 0, capacity and buffer are unchanged, and no slot
\* is constructed or destroyed.
C14_PopClearOnEmptyAreNoOps ==
    [][ \A q \in Queues :
            (Empty(q) /\ (PopCall(q) \/ ClearCall(q))) =>
                /\ thrown' = "none"
                /\ Size(q)' = 0
                /\ heap' = heap
                /\ faults' = faults
                /\ m_Container' = m_Container
                /\ m_Capacity' = m_Capacity
      ]_vars

\* Pop() and Clear() have both run on a queue nothing was ever pushed to.
C14_Witness ==
    /\ Live(Counted)
    /\ nPush = 0
    /\ nPopEmpty >= 1
    /\ cleared

\* C15: over any run of Push, Pop and Clear on a default-constructed queue,
\* the number of elements moved by Reallocate is at most twice the number of
\* Push calls.  It is in fact the capacity less one: each doubling from c
\* slots moves c elements, and 1 + 2 + ... + c/2 = c - 1.
C15_RelocationsAreLinear ==
    Live(Counted) =>
        /\ nReloc <= 2 * nPush
        /\ nReloc = Capacity(Counted) - 1

\* All the pushes of a run have been made, with pops between them, and the
\* buffer has grown twice.
C15_Witness ==
    /\ nPush = MaxCalls
    /\ nPop >= 1
    /\ nReloc = 3
    /\ Size(Counted) = MaxSize

\* C16: q = q and q = std::move(q) return without releasing, allocating,
\* constructing or destroying anything: buffer, size, capacity and elements
\* are what they were.
C16_SelfAssignmentIsNoOp ==
    [][ \A q \in Queues :
            (CopyAssignCall(q, q) \/ MoveAssignCall(q, q)) =>
                /\ thrown' = "none"
                /\ heap' = heap
                /\ faults' = faults
                /\ m_Container' = m_Container
                /\ m_Size' = m_Size
                /\ m_Capacity' = m_Capacity
                /\ Contents(q)' = Contents(q)
      ]_vars

\* A queue of two elements has been assigned to itself.
C16_Witness ==
    /\ selfAssigned
    /\ Size(Counted) = 2
    /\ Contents(Counted) = fifo[Counted]

\* C17: Push(value), in either form.  If size = capacity before the call the
\* buffer is replaced by a new region of exactly capacity * 2 slots, each of
\* the size elements is moved once, the old objects are destroyed and the old
\* region is released; otherwise capacity and buffer are unchanged and no
\* element moves.  In both cases the value is constructed in slot size, the
\* size grows by one, and the elements already there keep their values and
\* their order.
C17_PushGrowsByDoubling ==
    [][ \A q \in Queues : \A v \in Values :
            (m_Size'[q] = m_Size[q] + 1 /\ (PushCopy(q, v) \/ PushMove(q, v)))
            => /\ IF Size(q) = Capacity(q)
                  THEN /\ Capacity(q)' = Capacity(q) * 2
                       /\ m_Container'[q] # m_Container[q]
                       /\ Allocated(heap', m_Container'[q])
                       /\ Len(heap'[m_Container'[q].at]) = Capacity(q) * 2
                       /\ heap'[m_Container[q].at] = Unallocated
                       /\ AllocatedRegions' =
                              (AllocatedRegions \ {m_Container[q].at})
                                  \cup {m_Container'[q].at}
                       /\ Push(World, q, v).reloc = Size(q)
                  ELSE /\ Capacity(q)' = Capacity(q)
                       /\ m_Container'[q] = m_Container[q]
                       /\ AllocatedRegions' = AllocatedRegions
                       /\ Push(World, q, v).reloc = 0
               /\ ReadAt(heap', m_Container'[q], Size(q)) = v
               /\ Size(q)' = Size(q) + 1
               /\ Contents(q)' = Append(Contents(q), v)
               /\ \A i \in Size(q)'..(Capacity(q)' - 1) :
                      ReadAt(heap', m_Container'[q], i) = Raw
               /\ faults' = faults
               /\ thrown' = "none"
      ]_vars

\* Three pushes and nothing else: the third found the two-slot buffer full
\* and moved both elements into a buffer of four.
C17_Witness ==
    /\ nPush = 3 /\ nPop = 0 /\ ~cleared
    /\ nReloc = 3
    /\ Size(Counted) = 3
    /\ Capacity(Counted) = 4
    /\ Contents(Counted) = fifo[Counted]

\* C18: Pop() on a queue of n >= 1 elements, slot by slot.  No destructor
\* runs on a slot without an object, no constructor runs on a slot that still
\* holds one, and nothing is read at or beyond slot n (each of these would
\* leave a fault).  Afterwards slots [0, n-1) hold the former elements
\* 1..n-1 in order, slot n-1 and every slot after it is raw storage, the size
\* is n-1 and capacity and buffer are unchanged.
C18_PopShiftsSafely ==
    [][ \A q \in Queues :
            (Size(q) >= 1 /\ m_Size'[q] = m_Size[q] - 1 /\ PopCall(q)) =>
                /\ faults' = {}
                /\ thrown' = "none"
                /\ Contents(q)' = Tail(Contents(q))
                /\ \A i \in (Size(q) - 1)..(Capacity(q) - 1) :
                       ReadAt(heap', m_Container[q], i) = Raw
                /\ Size(q)' = Size(q) - 1
                /\ Capacity(q)' = Capacity(q)
                /\ m_Container'[q] = m_Container[q]
                /\ AllocatedRegions' = AllocatedRegions
      ]_vars

\* Three pushes and one pop that found the queue non-empty: two elements are
\* left at the front of the four-slot buffer.
C18_Witness ==
    /\ nPush = 3 /\ nPop = 1 /\ nPopEmpty = 0 /\ ~cleared
    /\ Size(Counted) = 2
    /\ Capacity(Counted) = 4
    /\ Contents(Counted) = fifo[Counted]
    /\ faults = {}

\* C19: after T's copy constructor has thrown partway through a copy
\* construction or a copy assignment, and while the queues are then
\* destroyed: the size of every live queue counts only slots that hold a
\* constructed element, every allocated region is the buffer of a live queue
\* (no buffer and no copy already made is leaked), and no destructor has run
\* on a slot without an object.
C19_ElementThrowLeavesConsistent ==
    thrown = "copy_threw" =>
        /\ \A q \in Queues :
               Live(q) =>
                   \A i \in 0..(Size(q) - 1) :
                       ReadAt(heap, m_Container[q], i) \in Values
        /\ \A a \in AllocatedRegions :
               \E q \in Queues : Live(q) /\ m_Container[q] = Ptr(a)
        /\ faults = {}

\* The smallest power of two that is at least n, searched upwards from p.
RECURSIVE PowerOfTwoFrom(_, _)
PowerOfTwoFrom(p, n) == IF p >= n THEN p ELSE PowerOfTwoFrom(2 * p, n)

\* C20: for a default-constructed queue driven only by Push, Pop and Clear,
\* Capacity() is the smallest power of two that is at least max(1, the
\* largest Size() the queue has had), and therefore a Push from this state
\* never leaves by the invalid-argument exception of Reallocate.
C20_CapacityIsPowerOfTwoOfPeak ==
    Live(Counted) =>
        /\ Capacity(Counted) = PowerOfTwoFrom(1, Max(1, peakSize))
        /\ Size(Counted) <= peakSize
        /\ \A v \in Values :
               Push(World, Counted, v).exc # "invalid_argument"

\* The queue has held three elements, is empty again, and keeps the four
\* slots that the peak needed.
C20_Witness ==
    /\ peakSize = 3
    /\ Size(Counted) = 0
    /\ Capacity(Counted) = 4
    /\ nPop >= 1

====
